---- MODULE Spec2Model ----
(***************************************************************************)
(* A model of the NAU7802 load-cell ADC driver (src/src/NAU7802.cpp).      *)
(*                                                                         *)
(* The device is a set of 8-bit registers behind an I2C bus whose every    *)
(* transaction may fail.  The driver's operations are translated from the  *)
(* code; the driver's polling loops advance one iteration per step, with   *)
(* the chip and the clock moving in between.                               *)
(***************************************************************************)
EXTENDS Integers, Sequences, FiniteSets, TLC

VARIABLES
    regs,               \* the chip's registers: address -> byte
    now,                \* the steady clock, in ms since refTime
    pc,                 \* where the driver is: "idle", a loop, or "done"
    op,                 \* the operation called
    arg,                \* its arguments
    ret,                \* its return value, once pc = "done" (a float
                        \* returned by getWeight is in weight)
    bus,                \* outcomes of the bus transactions of the last step
    pre,                \* the registers when the operation was called
    begin,              \* waitForCalibrateAFE: uint32_t begin
    timeout_ms,         \* waitForCalibrateAFE: timeout_ms
    cal_ready,          \* waitForCalibrateAFE: cal_ready
    counter,            \* powerUp: counter
    result,             \* begin: result
    steps,              \* begin: the setup steps executed so far, in order
    failed,             \* begin: what went wrong inside the steps so far
    total,              \* getAverage: total
    samplesAquired,     \* getAverage: samplesAquired
    startTime,          \* getAverage: startTime
    averageAmount,      \* getAverage: averageAmount
    taken,              \* getAverage: the readings added to total, in order
    inTime,             \* getAverage: conversions that became ready no
                        \* later than 1000 ms after the call
    onScale,            \* getWeight: onScale as getAverage returned it
    weight,             \* getWeight: float weight, which it returns
    zeroOffset,         \* _zeroOffset
    calibrationFactor,  \* _calibrationFactor
    lastZero,           \* <<X>> since setZeroOffset(X), until a
                        \* calculateZeroOffset; <<>> otherwise
    lastFactor,         \* the same for setCalibrationFactor
    calls,              \* the calls the caller has gone on from
    fd,                 \* the handle's bus descriptor (int fd)
    fds,                \* the descriptors the handle opened, still open
    data,               \* getReading: uint8_t data[3] after the block read
    blockRet            \* getReading: what the block read returned (an int)

vars == <<regs, now, pc, op, arg, ret, bus, pre, begin, timeout_ms, cal_ready,
          counter, result, steps, failed, total, samplesAquired, startTime,
          averageAmount, taken, inTime, onScale, weight, zeroOffset,
          calibrationFactor, lastZero, lastFactor, calls, fd, fds, data,
          blockRet>>

calVars == <<begin, timeout_ms, cal_ready>>
beginVars == <<counter, result, steps, failed>>
avgVars == <<total, samplesAquired, startTime, averageAmount, taken, inTime,
             onScale, weight>>
scaleVars == <<zeroOffset, calibrationFactor, lastZero, lastFactor, calls>>
readVars == <<data, blockRet>>
connVars == <<fd, fds>>

(***************************************************************************)
(* The register map and the enumerations of NAU7802.h.                     *)
(***************************************************************************)
NAU7802_PU_CTRL == 0
NAU7802_CTRL1 == 1
NAU7802_CTRL2 == 2
NAU7802_ADCO_B2 == 18
NAU7802_ADC == 21
NAU7802_PGA_PWR == 28

NAU7802_PU_CTRL_RR == 0
NAU7802_PU_CTRL_PUD == 1
NAU7802_PU_CTRL_PUA == 2
NAU7802_PU_CTRL_PUR == 3
NAU7802_PU_CTRL_CR == 5
NAU7802_PU_CTRL_AVDDS == 7
NAU7802_CTRL1_CRP == 7
NAU7802_CTRL2_CALS == 2
NAU7802_CTRL2_CAL_ERROR == 3
NAU7802_CTRL2_CHS == 7
NAU7802_PGA_PWR_PGA_CAP_EN == 7

NAU7802_LDO_3V3 == 4
NAU7802_GAIN_128 == 7
NAU7802_SPS_80 == 3
NAU7802_CHANNEL_1 == 0

NAU7802_CAL_SUCCESS == "NAU7802_CAL_SUCCESS"
NAU7802_CAL_IN_PROGRESS == "NAU7802_CAL_IN_PROGRESS"
NAU7802_CAL_FAILURE == "NAU7802_CAL_FAILURE"

RegAddrs == {NAU7802_PU_CTRL, NAU7802_CTRL1, NAU7802_CTRL2, NAU7802_ADC,
             NAU7802_PGA_PWR}

(***************************************************************************)
(* Bounds of the model.                                                    *)
(***************************************************************************)
\* Arguments of the configuration calls: 0..MaxArg, and 15 and 255 besides.
MaxArg == 9
ArgVals == (0..MaxArg) \cup {15, 255}
\* The registers a call of the register specification may address.
FocusAddrs == {NAU7802_PU_CTRL, NAU7802_CTRL1, NAU7802_CTRL2}

(***************************************************************************)
(* Bytes.                                                                  *)
(***************************************************************************)
Byte == 0..255
Bit(v, i) == (v \div (2^i)) % 2

RECURSIVE AndBits(_, _, _)
AndBits(a, b, i) ==
    IF i < 0 THEN 0
    ELSE Bit(a, i) * Bit(b, i) * (2^i) + AndBits(a, b, i - 1)

RECURSIVE OrBits(_, _, _)
OrBits(a, b, i) ==
    IF i < 0 THEN 0
    ELSE (IF Bit(a, i) + Bit(b, i) > 0 THEN 2^i ELSE 0) + OrBits(a, b, i - 1)

\* uint8_t value; value &= m;  value |= m;  (m an int, the result cut to 8 bits)
And8(a, m) == AndBits(a, m, 7)
Or8(a, m) == OrBits(a, m, 7)
\* ~(1 << bitNumber), as far as its low 8 bits go
NotBit8(bitNumber) == 255 - And8(2^bitNumber, 255)

\* The outcomes of n bus transactions: TRUE is success.
Bus(n) == [1..n -> BOOLEAN]
AllOk(b) == \A i \in DOMAIN b : b[i]

(***************************************************************************)
(* Register access (NAU7802.cpp, 380-430).  r is the register file, ok /   *)
(* b the outcomes of the bus transactions the call makes, in order.        *)
(***************************************************************************)
\* retVal < 0 : return 0
getRegister(r, registerAddress, ok) ==
    IF ok THEN r[registerAddress] ELSE 0

setRegister(r, registerAddress, value, ok) ==
    [regs |-> IF ok THEN [r EXCEPT ![registerAddress] = value] ELSE r,
     ret |-> ok]

\* A setBit that assigns the mask instead of or-ing it in.
setBitAssign(r, bitNumber, registerAddress, b) ==
    setRegister(r, registerAddress, 2^bitNumber, b[2])

setBit(r, bitNumber, registerAddress, b) ==
    LET value == Or8(getRegister(r, registerAddress, b[1]), 2^bitNumber)
    IN  setRegister(r, registerAddress, value, b[2])

clearBit(r, bitNumber, registerAddress, b) ==
    LET value == And8(getRegister(r, registerAddress, b[1]),
                      NotBit8(bitNumber))
    IN  setRegister(r, registerAddress, value, b[2])

\* value &= (1 << bitNumber); return (value);   a uint8_t returned as bool
getBit(r, bitNumber, registerAddress, ok) ==
    And8(getRegister(r, registerAddress, ok), 2^bitNumber) # 0

(***************************************************************************)
(* Calibration status and configuration (NAU7802.cpp, 122-249).            *)
(***************************************************************************)
\* A calAFEStatus that looks at the error bit first.
calAFEStatusErrFirst(r, b) ==
    IF getBit(r, NAU7802_CTRL2_CAL_ERROR, NAU7802_CTRL2, b[2])
    THEN NAU7802_CAL_FAILURE
    ELSE IF getBit(r, NAU7802_CTRL2_CALS, NAU7802_CTRL2, b[1])
         THEN NAU7802_CAL_IN_PROGRESS
         ELSE NAU7802_CAL_SUCCESS

calAFEStatus(r, b) ==
    IF getBit(r, NAU7802_CTRL2_CALS, NAU7802_CTRL2, b[1])
    THEN NAU7802_CAL_IN_PROGRESS
    ELSE IF getBit(r, NAU7802_CTRL2_CAL_ERROR, NAU7802_CTRL2, b[2])
         THEN NAU7802_CAL_FAILURE
         ELSE NAU7802_CAL_SUCCESS

\* A range check that masks instead of clamping.
Clamp3Mask(x) == x % 8

\* if (x > 0b111) x = 0b111;
Clamp3(x) == IF x > 7 THEN 7 ELSE x

\* A setSampleRate that starts the calibration itself.
setSampleRateAndCalibrate(r, rate, b) ==
    LET value == Or8(Or8(And8(getRegister(r, NAU7802_CTRL2, b[1]), 143),
                         Clamp3(rate) * 16), 2^NAU7802_CTRL2_CALS)
    IN  setRegister(r, NAU7802_CTRL2, value, b[2])

setSampleRate(r, rate, b) ==
    LET value == Or8(And8(getRegister(r, NAU7802_CTRL2, b[1]), 143),
                     Clamp3(rate) * 16)
    IN  setRegister(r, NAU7802_CTRL2, value, b[2])

setGain(r, gainValue, b) ==
    LET value == Or8(And8(getRegister(r, NAU7802_CTRL1, b[1]), 248),
                     Clamp3(gainValue))
    IN  setRegister(r, NAU7802_CTRL1, value, b[2])

\* The result of setRegister(NAU7802_CTRL1, value) is dropped; the return
\* value is that of the setBit on PU_CTRL.
setLDO(r, ldoValue, b) ==
    LET value == Or8(And8(getRegister(r, NAU7802_CTRL1, b[1]), 199),
                     Clamp3(ldoValue) * 8)
        w == setRegister(r, NAU7802_CTRL1, value, b[2])
    IN  setBit(w.regs, NAU7802_PU_CTRL_AVDDS, NAU7802_PU_CTRL, <<b[3], b[4]>>)

setChannel(r, channelNumber, b) ==
    IF channelNumber = NAU7802_CHANNEL_1
    THEN clearBit(r, NAU7802_CTRL2_CHS, NAU7802_CTRL2, b)
    ELSE setBit(r, NAU7802_CTRL2_CHS, NAU7802_CTRL2, b)

(***************************************************************************)
(* Defaults of the variables an operation does not use.                    *)
(***************************************************************************)
NoOp == op = "none" /\ arg = <<>> /\ bus = <<>>
NoCall == NoOp /\ ret = "none"
NoCal == begin = 0 /\ timeout_ms = 0 /\ cal_ready = "none"
NoBegin == counter = 0 /\ result = TRUE /\ steps = <<>> /\ failed = {}
NoAvg ==
    /\ total = 0 /\ samplesAquired = 0 /\ startTime = 0
    /\ averageAmount = 0 /\ taken = <<>> /\ inTime = 0 /\ onScale = 0
    /\ weight = <<0, 0>>
\* A float is <<m, e>>, standing for m * 2^e, with m odd, or <<0, 0>>.
NoScale ==
    /\ zeroOffset = 0 /\ calibrationFactor = <<1, 0>>
    /\ lastZero = <<0>> /\ lastFactor = <<<<1, 0>>>>
    /\ calls = 0
NoRead == data = <<0, 0, 0>> /\ blockRet = 0
\* The descriptor of a handle whose begin() has succeeded in opening the bus.
FirstFd == 3
NoConn == fd = FirstFd /\ fds = {FirstFd}

(***************************************************************************)
(* The register specification: one call of a register-level operation on   *)
(* a chip whose control registers hold any byte (CTRL1 and CTRL2 the byte  *)
(* c, PU_CTRL its complement, so that every register takes every value).   *)
(***************************************************************************)
RegFile(c) ==
    [a \in RegAddrs |->
        IF a \in {NAU7802_CTRL1, NAU7802_CTRL2} THEN c
        ELSE IF a = NAU7802_PU_CTRL THEN 255 - c
        ELSE 0]

\* The registers after a power-on reset.
ResetRegs == [a \in RegAddrs |-> 0]

InitReg ==
    /\ \E c \in Byte : regs = RegFile(c)
    /\ pre = regs
    /\ now = 0 /\ pc = "idle"
    /\ NoCall /\ NoCal /\ NoBegin /\ NoAvg /\ NoScale /\ NoRead /\ NoConn

\* The call o(a) ran its bus transactions with outcomes b, left the
\* registers r and returned v.
Returns(o, a, b, r, v) ==
    /\ pc = "idle"
    /\ pc' = "done"
    /\ op' = o /\ arg' = a /\ bus' = b /\ ret' = v
    /\ pre' = regs /\ regs' = r
    /\ UNCHANGED <<now, calVars, beginVars, avgVars, scaleVars, connVars,
                   readVars>>

GetRegisterCall ==
    \E a \in FocusAddrs, b \in Bus(1) :
        Returns("getRegister", [registerAddress |-> a], b, regs,
                getRegister(regs, a, b[1]))

SetRegisterCall ==
    \E a \in FocusAddrs, v \in ArgVals, b \in Bus(1) :
        LET w == setRegister(regs, a, v, b[1])
        IN  Returns("setRegister", [registerAddress |-> a, value |-> v], b,
                    w.regs, w.ret)

GetBitCall ==
    \E n \in 0..7, a \in FocusAddrs, b \in Bus(1) :
        Returns("getBit", [bitNumber |-> n, registerAddress |-> a], b, regs,
                getBit(regs, n, a, b[1]))

SetBitCall ==
    \E n \in 0..7, a \in FocusAddrs, b \in Bus(2) :
        LET w == setBit(regs, n, a, b)
        IN  Returns("setBit", [bitNumber |-> n, registerAddress |-> a], b,
                    w.regs, w.ret)

ClearBitCall ==
    \E n \in 0..7, a \in FocusAddrs, b \in Bus(2) :
        LET w == clearBit(regs, n, a, b)
        IN  Returns("clearBit", [bitNumber |-> n, registerAddress |-> a], b,
                    w.regs, w.ret)

CalAFEStatusCall ==
    \E b \in Bus(2) :
        Returns("calAFEStatus", <<>>, b, regs, calAFEStatus(regs, b))

SetSampleRateCall ==
    \E v \in ArgVals, b \in Bus(2) :
        LET w == setSampleRate(regs, v, b)
        IN  Returns("setSampleRate", [rate |-> v], b, w.regs, w.ret)

SetGainCall ==
    \E v \in ArgVals, b \in Bus(2) :
        LET w == setGain(regs, v, b)
        IN  Returns("setGain", [gainValue |-> v], b, w.regs, w.ret)

SetLDOCall ==
    \E v \in ArgVals, b \in Bus(4) :
        LET w == setLDO(regs, v, b)
        IN  Returns("setLDO", [ldoValue |-> v], b, w.regs, w.ret)

SetChannelCall ==
    \E v \in {NAU7802_CHANNEL_1, 1}, b \in Bus(2) :
        LET w == setChannel(regs, v, b)
        IN  Returns("setChannel", [channelNumber |-> v], b, w.regs, w.ret)

NextReg ==
    \/ GetRegisterCall
    \/ SetRegisterCall
    \/ GetBitCall
    \/ SetBitCall
    \/ ClearBitCall
    \/ CalAFEStatusCall
    \/ SetSampleRateCall
    \/ SetGainCall
    \/ SetLDOCall
    \/ SetChannelCall

SpecReg == InitReg /\ [][NextReg]_vars

(***************************************************************************)
(* Claims about register access and configuration, under SpecReg.          *)
(***************************************************************************)
Done(o) == pc = "done" /\ op = o

\* The bits of byte v outside the set of bit positions S equal those of w.
SameBitsExcept(v, w, S) == \A i \in (0..7) \ S : Bit(v, i) = Bit(w, i)
\* Every register but those in A is as it was when the call was made.
SameRegsExcept(A) == \A a \in RegAddrs \ A : regs[a] = pre[a]

\* C2: when its register reads succeed, calAFEStatus answers InProgress if
\* the calibration-start bit of CTRL2 is set (whatever the error bit),
\* Failure if start is clear and error is set, Success if both are clear.
C2_StatusMapping ==
    (Done("calAFEStatus") /\ AllOk(bus)) =>
        LET cals == Bit(pre[NAU7802_CTRL2], 2)
            err == Bit(pre[NAU7802_CTRL2], 3)
        IN  /\ (cals = 1) => ret = NAU7802_CAL_IN_PROGRESS
            /\ (cals = 0 /\ err = 1) => ret = NAU7802_CAL_FAILURE
            /\ (cals = 0 /\ err = 0) => ret = NAU7802_CAL_SUCCESS

C2_Witness ==
    /\ Done("calAFEStatus") /\ AllOk(bus)
    /\ Bit(pre[NAU7802_CTRL2], 2) = 1 /\ Bit(pre[NAU7802_CTRL2], 3) = 1
    /\ ret = NAU7802_CAL_IN_PROGRESS

\* C4: a failed bus read or write inside getRegister, setRegister, getBit,
\* setBit or clearBit reaches the caller as a failure: the writers return
\* false, also when only the read half of a read-modify-write failed, and
\* the readers do not hand back a valid value.
C4_FailurePropagates ==
    /\ (pc = "done" /\ op \in {"setBit", "clearBit"} /\ ~AllOk(bus))
          => ret = FALSE
    /\ (Done("setRegister") /\ ~AllOk(bus)) => ret = FALSE
    /\ (Done("getBit") /\ ~AllOk(bus)) => ret \notin BOOLEAN
    /\ (Done("getRegister") /\ ~AllOk(bus)) => ret \notin Byte

\* C9: with the bus succeeding, a getBit after setBit(n, a) reads true, a
\* getBit after clearBit(n, a) reads false, and every other bit of register
\* a, and every other register, is as before.
C9_SetClearGet ==
    /\ (Done("setBit") /\ AllOk(bus)) =>
          /\ getBit(regs, arg.bitNumber, arg.registerAddress, TRUE) = TRUE
          /\ SameBitsExcept(regs[arg.registerAddress],
                            pre[arg.registerAddress], {arg.bitNumber})
          /\ SameRegsExcept({arg.registerAddress})
    /\ (Done("clearBit") /\ AllOk(bus)) =>
          /\ getBit(regs, arg.bitNumber, arg.registerAddress, TRUE) = FALSE
          /\ SameBitsExcept(regs[arg.registerAddress],
                            pre[arg.registerAddress], {arg.bitNumber})
          /\ SameRegsExcept({arg.registerAddress})

C9_Witness ==
    /\ Done("setBit") /\ AllOk(bus)
    /\ arg.bitNumber = 2 /\ arg.registerAddress = NAU7802_CTRL2
    /\ pre[NAU7802_CTRL2] = 161
    /\ regs[NAU7802_CTRL2] = 165

Min(x, y) == IF x < y THEN x ELSE y

\* C10: with the bus succeeding, setSampleRate(v) leaves bits 6..4 of CTRL2
\* at min(v,7), setGain(v) bits 2..0 of CTRL1 at min(v,7), setLDO(v) bits
\* 5..3 of CTRL1 at min(v,7) and bit 7 of PU_CTRL set; no other bit of any
\* register changes, so a field changes only when it is set.
C10_FieldsClamped ==
    /\ (Done("setSampleRate") /\ AllOk(bus)) =>
          /\ (regs[NAU7802_CTRL2] \div 16) % 8 = Min(arg.rate, 7)
          /\ SameBitsExcept(regs[NAU7802_CTRL2], pre[NAU7802_CTRL2],
                            {4, 5, 6})
          /\ SameRegsExcept({NAU7802_CTRL2})
    /\ (Done("setGain") /\ AllOk(bus)) =>
          /\ regs[NAU7802_CTRL1] % 8 = Min(arg.gainValue, 7)
          /\ SameBitsExcept(regs[NAU7802_CTRL1], pre[NAU7802_CTRL1],
                            {0, 1, 2})
          /\ SameRegsExcept({NAU7802_CTRL1})
    /\ (Done("setLDO") /\ AllOk(bus)) =>
          /\ (regs[NAU7802_CTRL1] \div 8) % 8 = Min(arg.ldoValue, 7)
          /\ Bit(regs[NAU7802_PU_CTRL], NAU7802_PU_CTRL_AVDDS) = 1
          /\ SameBitsExcept(regs[NAU7802_CTRL1], pre[NAU7802_CTRL1],
                            {3, 4, 5})
          /\ SameBitsExcept(regs[NAU7802_PU_CTRL], pre[NAU7802_PU_CTRL],
                            {NAU7802_PU_CTRL_AVDDS})
          /\ SameRegsExcept({NAU7802_CTRL1, NAU7802_PU_CTRL})

C10_Witness ==
    /\ Done("setSampleRate") /\ AllOk(bus)
    /\ arg.rate = 15
    /\ pre[NAU7802_CTRL2] = 175
    /\ regs[NAU7802_CTRL2] = 255

(***************************************************************************)
(* getReading (NAU7802.cpp, 260-285).                                      *)
(***************************************************************************)
\* What the block read may return: the byte count, or a negative errno.
BlockRets == {-121, -110, -5, -1, 0, 1, 2, 3}
\* Bytes the buffer may hold: any top byte, and these lower bytes.
LowBytes == {0, 1, 127, 128, 255}

\* uint8_t ret = <int>;
Uint8(x) == x % 256

\* (int32_t)(valueRaw << 8) for a uint32_t valueRaw: the top byte is shifted
\* out, and a result with bit 31 set is negative.
Shl8ToInt32(valueRaw) ==
    LET low24 == valueRaw % 16777216
    IN  IF low24 >= 8388608 THEN (low24 - 16777216) * 256 ELSE low24 * 256

\* A right shift that fills with zeros instead of the sign.
Sar8Logical(valueShifted) ==
    IF valueShifted < 0 THEN (valueShifted \div 256) + 16777216
    ELSE valueShifted \div 256

\* valueShifted >> 8 on an int32_t: the arithmetic shift
Sar8(valueShifted) == valueShifted \div 256

\* r is what i2c_smbus_read_i2c_block_data returned, d the buffer after it
getReading(r, d) ==
    IF Uint8(r) > 1
    THEN LET valueRaw == d[1] * 65536 + d[2] * 256 + d[3]
         IN  Sar8(Shl8ToInt32(valueRaw))
    ELSE 0

(***************************************************************************)
(* The reading specification: one call of getReading.  A read that worked  *)
(* filled the buffer with the chip's three bytes; after one that did not,  *)
(* the buffer, never initialised, holds any bytes.                         *)
(***************************************************************************)
InitRead ==
    /\ regs = ResetRegs /\ pre = regs
    /\ now = 0 /\ pc = "idle"
    /\ NoCall /\ NoCal /\ NoBegin /\ NoAvg /\ NoScale /\ NoRead /\ NoConn

GetReadingCall ==
    /\ pc = "idle"
    /\ \E r \in BlockRets, b2 \in Byte, b1 \in LowBytes, b0 \in LowBytes :
          /\ blockRet' = r
          /\ data' = <<b2, b1, b0>>
          /\ ret' = getReading(r, <<b2, b1, b0>>)
    /\ pc' = "done" /\ op' = "getReading" /\ arg' = <<>> /\ bus' = <<>>
    /\ UNCHANGED <<regs, pre, now, calVars, beginVars, avgVars, scaleVars,
                   connVars>>

NextRead == GetReadingCall

SpecRead == InitRead /\ [][NextRead]_vars

\* C5: after a block read that returned its three bytes, getReading returns
\* the 24-bit two's-complement value of b2*65536 + b1*256 + b0: the value
\* itself below 2^23, the value minus 2^24 from 2^23 on.
C5_SignExtension ==
    (Done("getReading") /\ blockRet = 3) =>
        LET raw == data[1] * 65536 + data[2] * 256 + data[3]
        IN  /\ raw < 8388608 => ret = raw
            /\ raw >= 8388608 => ret = raw - 16777216
            /\ data = <<0, 0, 1>> => ret = 1
            /\ data = <<255, 255, 255>> => ret = -1
            /\ data = <<127, 255, 255>> => ret = 8388607
            /\ data = <<128, 0, 0>> => ret = -8388608

C5_Witness ==
    /\ Done("getReading") /\ blockRet = 3
    /\ data = <<128, 0, 0>> /\ ret = -8388608

\* C6: when the block read reports a transport error (a negative return
\* code), getReading returns 0 and the buffer is not decoded.
C6_ErrorReturnsZero ==
    (Done("getReading") /\ blockRet < 0) => ret = 0

(***************************************************************************)
(* Set-up and calibration (NAU7802.cpp, 37-160 and 186-219).               *)
(***************************************************************************)
\* Failed bus transactions tolerated within one begin().
MaxFaults == 1
\* The clock stops being followed once a waitForCalibrateAFE(0) has waited
\* this long.
MaxWait0 == 20
\* How long an iteration of a short calibration wait may take besides 1 ms.
LongNap == 3
\* The length of an iteration of a calibration wait of 1000 ms: the model
\* follows the long wait in coarse steps, the short ones to the millisecond.
CoarseNap == 250
\* The timeouts waitForCalibrateAFE is called with.
ShortWait == 2
WaitTimeouts == {0, ShortWait, 1000}

\* What the chip does when RR is written as 1: every register goes back to
\* its power-on default, RR staying set.
ChipReset == [ResetRegs EXCEPT ![NAU7802_PU_CTRL] = 2^NAU7802_PU_CTRL_RR]

\* The result of the first setBit is dropped.
reset(r, b) ==
    LET w == setBit(r, NAU7802_PU_CTRL_RR, NAU7802_PU_CTRL, <<b[1], b[2]>>)
        r1 == IF w.ret THEN ChipReset ELSE w.regs
    IN  clearBit(r1, NAU7802_PU_CTRL_RR, NAU7802_PU_CTRL, <<b[3], b[4]>>)

\* The two setBit calls at the head of powerUp; their results are dropped.
powerUpBits(r, b) ==
    LET w == setBit(r, NAU7802_PU_CTRL_PUD, NAU7802_PU_CTRL, <<b[1], b[2]>>)
    IN  setBit(w.regs, NAU7802_PU_CTRL_PUA, NAU7802_PU_CTRL, <<b[3], b[4]>>)

\* The result of the setBit is dropped: the function returns void.
beginCalibrateAFE(r, b) ==
    setBit(r, NAU7802_CTRL2_CALS, NAU7802_CTRL2, b)

\* A wait that takes anything but a failure for success.
waitResultNotFailure(status) == status # NAU7802_CAL_FAILURE

\* if (cal_ready == NAU7802_CAL_SUCCESS) return (true); return (false);
waitResult(status) == status = NAU7802_CAL_SUCCESS

\* A wait that takes the timeout 0 for one of 0 ms.
waitTimedOutAtZero(t, millis, b0) == millis - b0 > t

\* (timeout_ms > 0) && ((millis() - begin) > timeout_ms)
waitTimedOut(t, millis, b0) == t > 0 /\ millis - b0 > t

\* The transactions of each step, in order: "r" a register read, "w" a write.
RW == <<"r", "w">>
RWRW == <<"r", "w", "r", "w">>
\* The failed transactions among those of step s with outcomes b.
Faults(s, b, kinds) == {<<s, i, kinds[i]>> : i \in {j \in DOMAIN b : ~b[j]}}
\* The outcomes of n transactions that keep begin() within MaxFaults.
BusWithin(n) ==
    {b \in Bus(n) :
        Cardinality({j \in 1..n : ~b[j]}) + Cardinality(failed) <= MaxFaults}

SetupSteps == <<"reset", "powerUp", "setLDO", "setGain", "setSampleRate",
                "setRegister", "setBit", "calibrateAFE">>

(***************************************************************************)
(* The chip, between two polls of the driver.                              *)
(***************************************************************************)
\* Powered up digitally, the chip raises the power-up-ready bit.
ChipPowerUp ==
    /\ pc = "powerUpPoll"
    /\ Bit(regs[NAU7802_PU_CTRL], NAU7802_PU_CTRL_PUD) = 1
    /\ Bit(regs[NAU7802_PU_CTRL], NAU7802_PU_CTRL_PUR) = 0
    /\ regs' = [regs EXCEPT ![NAU7802_PU_CTRL] = @ + 2^NAU7802_PU_CTRL_PUR]
    /\ UNCHANGED <<now, pc, op, arg, ret, bus, pre, calVars, beginVars,
                   avgVars, scaleVars, connVars, readVars>>

\* A calibration ends: the chip clears CALS and reports in CAL_ERROR.
ChipCalDone ==
    /\ pc = "wait"
    /\ Bit(regs[NAU7802_CTRL2], NAU7802_CTRL2_CALS) = 1
    /\ \E err \in {0, 1} :
          regs' = [regs EXCEPT ![NAU7802_CTRL2] =
                      And8(@, 243) + err * 2^NAU7802_CTRL2_CAL_ERROR]
    /\ UNCHANGED <<now, pc, op, arg, ret, bus, pre, calVars, beginVars,
                   avgVars, scaleVars, connVars, readVars>>

(***************************************************************************)
(* begin(initialize).                                                      *)
(***************************************************************************)
\* A begin that does not probe a second time.
ConnectedNoRetry(c) == c[1] /\ c[2] /\ c[3]

\* open, ioctl(I2C_SLAVE) and the two probes; c holds their outcomes.
Connected(c) == c[1] /\ c[2] /\ (c[3] \/ c[4])

\* The calls of isConnected that begin makes, with what they returned.
Acks(c) ==
    IF ~(c[1] /\ c[2]) THEN <<>>
    ELSE IF c[3] THEN <<TRUE>>
    ELSE <<FALSE, c[4]>>

\* Descriptors the process can hold for the bus.
MaxFds == 3
Fds == FirstFd..(FirstFd + MaxFds - 1)

\* fd = open(device, O_RDWR): the lowest free descriptor, or -1; the value
\* fd held before is overwritten, the descriptor it named is not closed.
OpenBus(ok, open) ==
    IF ok /\ Fds \ open # {}
    THEN LET new == CHOOSE d \in Fds \ open : \A e \in Fds \ open : d <= e
         IN  [fd |-> new, fds |-> open \cup {new}, ok |-> TRUE]
    ELSE [fd |-> -1, fds |-> open, ok |-> FALSE]

\* begin(initialize), initialize taken from inits.
BeginCallWith(inits) ==
    /\ pc = "idle"
    /\ \E initialize \in inits, c \in Bus(4) :
          /\ c[1] = OpenBus(c[1], fds).ok
          /\ fd' = OpenBus(c[1], fds).fd
          /\ fds' = OpenBus(c[1], fds).fds
          /\ op' = "begin" /\ arg' = [initialize |-> initialize]
          /\ bus' = c
          /\ steps' = <<[step |-> "probe", ok |-> Connected(c),
                          opened |-> c[1], selected |-> c[1] /\ c[2],
                          acks |-> Acks(c)]>>
          /\ IF ~Connected(c)
             THEN pc' = "done" /\ ret' = FALSE
             ELSE IF initialize
                  THEN pc' = "reset" /\ ret' = ret
                  ELSE pc' = "done" /\ ret' = TRUE
    /\ pre' = regs
    /\ UNCHANGED <<regs, now, counter, result, failed, calVars, avgVars,
                   scaleVars, readVars>>

BeginCall == BeginCallWith(BOOLEAN)

\* result &= <step>, where the step left the registers w.regs and returned
\* w.ret, its bus transactions having had the outcomes b.
BeginStep(s, name, next, w, b, kinds) ==
    /\ pc = s /\ op = "begin"
    /\ regs' = w.regs
    /\ result' = (result /\ w.ret)
    /\ steps' = Append(steps, [step |-> name, ok |-> w.ret])
    /\ failed' = failed \cup Faults(name, b, kinds)
    /\ bus' = b
    /\ pc' = next
    /\ UNCHANGED <<op, arg, ret, pre, counter, calVars, avgVars, scaleVars,
                   connVars,
                   readVars>>

BeginReset ==
    \E b \in BusWithin(4) :
        /\ BeginStep("reset", "reset", "powerUp", reset(regs, b), b, RWRW)
        /\ UNCHANGED now

\* powerUp up to its loop; the step ends in PowerUpPoll.
BeginPowerUp ==
    /\ pc = "powerUp" /\ op = "begin"
    /\ \E b \in BusWithin(4) :
          /\ regs' = powerUpBits(regs, b).regs
          /\ failed' = failed \cup Faults("powerUp", b, RWRW)
          /\ bus' = b
    /\ counter' = 0
    /\ pc' = "powerUpPoll"
    /\ UNCHANGED <<now, op, arg, ret, pre, result, steps, calVars, avgVars,
                   scaleVars, connVars, readVars>>

PowerUpCall ==
    /\ pc = "idle"
    /\ \E b \in Bus(4) :
          /\ regs' = powerUpBits(regs, b).regs
          /\ bus' = b
    /\ op' = "powerUp" /\ arg' = <<>>
    /\ counter' = 0
    /\ pre' = regs
    /\ pc' = "powerUpPoll"
    /\ UNCHANGED <<now, ret, result, steps, failed, calVars, avgVars,
                   scaleVars, connVars, readVars>>

\* powerUp returns v: the end of the call, or of the step of begin(), where
\* the local counter is gone.
PowerUpReturns(v) ==
    IF op = "begin"
    THEN /\ result' = (result /\ v)
         /\ steps' = Append(steps, [step |-> "powerUp", ok |-> v])
         /\ pc' = "setLDO"
         /\ ret' = ret
         /\ counter' = 0
    ELSE /\ pc' = "done" /\ ret' = v
         /\ counter' = counter
         /\ UNCHANGED <<result, steps>>

\* A loop that gives up one poll early.
powerUpGivesUpEarly(c) == c >= 100

\* if (counter++ > 100) return (false);
powerUpGivesUp(c) == c > 100

\* usleep(1E3) in powerUp.  The loop is bounded by its counter and never
\* reads the clock: the sleep is followed in a call of powerUp itself, and
\* left out inside begin(), where only the later wait reads the clock, and
\* only for the time since its own start.
PowerUpNap == IF op = "powerUp" THEN 1 ELSE 0

\* One iteration of the loop of powerUp.
PowerUpPoll ==
    /\ pc = "powerUpPoll"
    /\ \E b \in Bus(1) :
          /\ bus' = b
          /\ IF getBit(regs, NAU7802_PU_CTRL_PUR, NAU7802_PU_CTRL, b[1])
             THEN PowerUpReturns(TRUE) /\ now' = now
             ELSE /\ now' = now + PowerUpNap
                  /\ IF powerUpGivesUp(counter)
                     THEN PowerUpReturns(FALSE)
                     ELSE /\ counter' = (counter + 1) % 256
                          /\ UNCHANGED <<pc, ret, result, steps>>
    /\ UNCHANGED <<regs, op, arg, pre, failed, calVars, avgVars,
                   scaleVars, connVars, readVars>>

BeginSetLDO ==
    \E b \in BusWithin(4) :
        /\ BeginStep("setLDO", "setLDO", "setGain",
                     setLDO(regs, NAU7802_LDO_3V3, b), b, RWRW)
        /\ UNCHANGED now

BeginSetGain ==
    \E b \in BusWithin(2) :
        /\ BeginStep("setGain", "setGain", "setSampleRate",
                     setGain(regs, NAU7802_GAIN_128, b), b, RW)
        /\ UNCHANGED now

BeginSetSampleRate ==
    \E b \in BusWithin(2) :
        /\ BeginStep("setSampleRate", "setSampleRate", "setRegister",
                     setSampleRate(regs, NAU7802_SPS_80, b), b, RW)
        /\ UNCHANGED now

\* setRegister(NAU7802_ADC, 0x30)
BeginSetRegister ==
    \E b \in BusWithin(1) :
        /\ BeginStep("setRegister", "setRegister", "setBit",
                     setRegister(regs, NAU7802_ADC, 48, b[1]), b, <<"w">>)
        /\ UNCHANGED now

BeginSetBit ==
    \E b \in BusWithin(2) :
        /\ BeginStep("setBit", "setBit", "calibrateAFE",
                     setBit(regs, NAU7802_PGA_PWR_PGA_CAP_EN, NAU7802_PGA_PWR,
                            b), b, RW)
        /\ UNCHANGED now

\* calibrateAFE() up to the loop of waitForCalibrateAFE(1000).
BeginCalibrate ==
    /\ pc = "calibrateAFE" /\ op = "begin"
    /\ \E b \in BusWithin(2) :
          /\ regs' = beginCalibrateAFE(regs, b).regs
          /\ failed' = failed \cup Faults("calibrateAFE", b, RW)
          /\ bus' = b
    /\ begin' = now /\ timeout_ms' = 1000 /\ cal_ready' = "none"
    /\ pc' = "wait"
    /\ UNCHANGED <<now, op, arg, ret, pre, counter, result, steps, avgVars,
                   scaleVars, connVars, readVars>>

\* C15: in begin(true) the steps run in the order reset, powerUp, setLDO,
\* setGain, setSampleRate, setRegister(ADC), setBit(PGA_CAP_EN), calibrateAFE,
\* each writing only its own registers; the calibration-start bit goes from
\* 0 to 1 only in the calibrateAFE step, after every write of the LDO, the
\* gain and the sample rate, and once it was written the driver changes no
\* register any more (the chip alone clears the bit and sets the error bit).
BeginPcs == <<"reset", "powerUp", "powerUpPoll", "setLDO", "setGain",
              "setSampleRate", "setRegister", "setBit", "calibrateAFE",
              "wait", "done">>
PcRank(p) == CHOOSE i \in 1..Len(BeginPcs) : BeginPcs[i] = p
StepWrites(p) ==
    CASE p = "reset" -> RegAddrs
      [] p \in {"powerUp", "powerUpPoll"} -> {NAU7802_PU_CTRL}
      [] p = "setLDO" -> {NAU7802_CTRL1, NAU7802_PU_CTRL}
      [] p = "setGain" -> {NAU7802_CTRL1}
      [] p \in {"setSampleRate", "calibrateAFE", "wait"} -> {NAU7802_CTRL2}
      [] p = "setRegister" -> {NAU7802_ADC}
      [] p = "setBit" -> {NAU7802_PGA_PWR}
      [] OTHER -> {}
CalsBit(r) == Bit(r[NAU7802_CTRL2], NAU7802_CTRL2_CALS)
C15_BeginOrder ==
    /\ []((op = "begin" /\ arg.initialize) =>
             \A i \in 2..Len(steps) : steps[i].step = SetupSteps[i - 1])
    /\ [][(op = "begin" /\ arg.initialize) =>
             PcRank(pc') = PcRank(pc) + 1]_pc
    /\ [][op = "begin" =>
             /\ \A a \in RegAddrs : regs'[a] # regs[a] => a \in StepWrites(pc)
             /\ (CalsBit(regs) = 0 /\ CalsBit(regs') = 1) =>
                    pc = "calibrateAFE"
             /\ pc = "wait" =>
                    /\ CalsBit(regs) = 1 /\ CalsBit(regs') = 0
                    /\ And8(regs'[NAU7802_CTRL2], 243) =
                          And8(regs[NAU7802_CTRL2], 243)]_regs

\* begin(true) ran all eight steps with no failure and left the LDO, the
\* gain, the sample rate, the ADC register and the capacitor bit written.
C15_Witness ==
    /\ Done("begin") /\ arg.initialize /\ ret = TRUE
    /\ Len(steps) = 1 + Len(SetupSteps)
    /\ regs[NAU7802_CTRL1] = 39
    /\ regs[NAU7802_CTRL2] = 48
    /\ regs[NAU7802_ADC] = 48
    /\ regs[NAU7802_PGA_PWR] = 128
    /\ failed = {}

(***************************************************************************)
(* The handle over its life: begin() called any number of times, then the  *)
(* destructor.  The set-up steps use the descriptor and leave it alone, so *)
(* begin is called here with initialize false.                             *)
(***************************************************************************)
\* What the uninitialised member fd may hold before the first begin().
FdGarbage == {-1, 0, FirstFd}

InitConn ==
    /\ regs = ResetRegs /\ pre = regs
    /\ now = 0 /\ pc = "idle"
    /\ fd \in FdGarbage /\ fds = {}
    /\ NoOp /\ ret = FALSE
    /\ NoCal /\ NoBegin /\ NoAvg /\ NoScale /\ NoRead

BeginOnHandle == BeginCallWith({FALSE})

\* begin has returned; the caller goes on with the handle.
CallerGoesOn ==
    /\ pc = "done"
    /\ pc' = "idle"
    /\ UNCHANGED <<regs, now, op, arg, ret, bus, pre, calVars, beginVars,
                   avgVars, scaleVars, connVars, readVars>>

\* NAU7802::~NAU7802: close(fd), on whatever fd holds.
Destroy ==
    /\ pc = "idle"
    /\ pc' = "destroyed"
    /\ fds' = fds \ {fd}
    /\ UNCHANGED <<regs, now, op, arg, ret, bus, pre, fd, calVars, beginVars,
                   avgVars, scaleVars, readVars>>

NextConn ==
    \/ BeginOnHandle
    \/ CallerGoesOn
    \/ Destroy

SpecConn == InitConn /\ [][NextConn]_vars

\* C13: once the handle is destroyed, no descriptor that its begin() calls
\* opened is still open.
C13_DestroyReleases ==
    pc = "destroyed" => fds = {}

(***************************************************************************)
(* beginCalibrateAFE, waitForCalibrateAFE, calibrateAFE.                   *)
(***************************************************************************)
BeginCalibrateAFECall ==
    \E b \in Bus(2) :
        Returns("beginCalibrateAFE", <<>>, b, beginCalibrateAFE(regs, b).regs,
                ret)

\* uint32_t begin = millis();  the clock of the model stays below 2^32
WaitForCalibrateAFECall ==
    /\ pc = "idle"
    /\ \E t \in WaitTimeouts :
          /\ timeout_ms' = t
          /\ arg' = [timeout_ms |-> t]
    /\ op' = "waitForCalibrateAFE"
    /\ begin' = now /\ cal_ready' = "none"
    /\ pre' = regs
    /\ pc' = "wait"
    /\ UNCHANGED <<regs, now, ret, bus, beginVars, avgVars, scaleVars, connVars,
                   readVars>>

CalibrateAFECall ==
    /\ pc = "idle"
    /\ \E b \in Bus(2) :
          /\ regs' = beginCalibrateAFE(regs, b).regs
          /\ bus' = b
    /\ op' = "calibrateAFE" /\ arg' = <<>>
    /\ begin' = now /\ timeout_ms' = 1000 /\ cal_ready' = "none"
    /\ pre' = regs
    /\ pc' = "wait"
    /\ UNCHANGED <<now, ret, beginVars, avgVars, scaleVars, connVars, readVars>>

WaitNaps == IF timeout_ms > ShortWait THEN {CoarseNap} ELSE {1, LongNap}

\* waitForCalibrateAFE returns v: the end of the call, or of begin().
WaitReturns(v) ==
    IF op = "begin"
    THEN /\ result' = (result /\ v)
         /\ steps' = Append(steps, [step |-> "calibrateAFE", ok |-> v])
         /\ ret' = (result /\ v)
    ELSE /\ ret' = v
         /\ UNCHANGED <<result, steps>>

\* One iteration of the loop of waitForCalibrateAFE, and what follows the
\* loop when it is left.
WaitPoll ==
    /\ pc = "wait"
    /\ \E b \in Bus(2) :
          LET status == calAFEStatus(regs, b)
          IN  /\ bus' = b
              /\ cal_ready' = status
              /\ IF \/ status # NAU7802_CAL_IN_PROGRESS
                    \/ waitTimedOut(timeout_ms, now, begin)
                 THEN /\ pc' = "done"
                      /\ WaitReturns(waitResult(status))
                      /\ now' = now
                 ELSE /\ timeout_ms = 0 => now - begin < MaxWait0
                      /\ \E nap \in WaitNaps : now' = now + nap
                      /\ UNCHANGED <<pc, ret, result, steps>>
    /\ UNCHANGED <<regs, op, arg, pre, begin, timeout_ms, counter, failed,
                   avgVars, scaleVars, connVars, readVars>>

(***************************************************************************)
(* The specification of set-up and calibration: one call, on a chip that   *)
(* is in reset or has a calibration under way or behind it.                *)
(***************************************************************************)
Init ==
    /\ \E c2 \in {0, 4, 8, 12}, pu \in {0, 14} :
          /\ c2 = 0 \/ pu = 0
          /\ regs = [ResetRegs EXCEPT ![NAU7802_CTRL2] = c2,
                                      ![NAU7802_PU_CTRL] = pu]
    /\ pre = regs
    /\ now = 0 /\ pc = "idle"
    /\ NoOp /\ ret = FALSE
    /\ NoCal /\ NoBegin /\ NoAvg /\ NoScale /\ NoRead /\ NoConn

Next ==
    \/ BeginCall
    \/ BeginReset
    \/ BeginPowerUp
    \/ PowerUpCall
    \/ PowerUpPoll
    \/ BeginSetLDO
    \/ BeginSetGain
    \/ BeginSetSampleRate
    \/ BeginSetRegister
    \/ BeginSetBit
    \/ BeginCalibrate
    \/ BeginCalibrateAFECall
    \/ WaitForCalibrateAFECall
    \/ CalibrateAFECall
    \/ WaitPoll
    \/ ChipPowerUp
    \/ ChipCalDone

Spec == Init /\ [][Next]_vars

\* Every iteration of a loop moves the position, the counter or the clock.
loopVars == <<pc, counter, now>>

\* One call of powerUp.  The driver is single-threaded and blocking: a loop
\* that can make its next iteration makes it.  Nothing is assumed of the
\* chip.
NextPower ==
    \/ PowerUpCall
    \/ PowerUpPoll
    \/ ChipPowerUp

SpecPower == Init /\ [][NextPower]_vars /\ WF_loopVars(PowerUpPoll)

(***************************************************************************)
(* Claims about set-up and calibration, under Spec.                        *)
(***************************************************************************)
WaitDone ==
    pc = "done" /\ op \in {"waitForCalibrateAFE", "calibrateAFE"}

\* C1: waitForCalibrateAFE returns true only if the last status it polled
\* is Success, and false if it is Failure; it returns with the status still
\* InProgress only on a timeout (timeout_ms > 0 and more than timeout_ms
\* elapsed), and then false; and a poll that reads InProgress more than
\* timeout_ms > 0 after the call ends the call with false.
C1_WaitResult ==
    /\ [](WaitDone =>
            /\ ret = TRUE => cal_ready = NAU7802_CAL_SUCCESS
            /\ cal_ready = NAU7802_CAL_FAILURE => ret = FALSE
            /\ cal_ready = NAU7802_CAL_IN_PROGRESS =>
                  /\ ret = FALSE
                  /\ timeout_ms > 0
                  /\ now - begin > timeout_ms)
    /\ [][(/\ pc = "wait" /\ op # "begin" /\ regs' = regs
           /\ cal_ready' = NAU7802_CAL_IN_PROGRESS
           /\ timeout_ms > 0 /\ now - begin > timeout_ms)
          => (pc' = "done" /\ ret' = FALSE)]_vars

C1_Witness ==
    /\ Done("waitForCalibrateAFE")
    /\ timeout_ms = ShortWait
    /\ cal_ready = NAU7802_CAL_IN_PROGRESS
    /\ now - begin = ShortWait + 1
    /\ ret = FALSE

\* C17: calibrateAFE returns true only if the write of the calibration-start
\* bit succeeded, the reads of the status it returned on succeeded, and the
\* chip ended that calibration with the error bit clear.  The write is
\* followed inside begin(), which records its failed transactions.
C17_CalibrateHonest ==
    /\ (Done("calibrateAFE") /\ ret = TRUE) =>
           /\ AllOk(bus)
           /\ CalsBit(regs) = 0
           /\ Bit(regs[NAU7802_CTRL2], NAU7802_CTRL2_CAL_ERROR) = 0
    /\ (Done("begin") /\ Len(steps) = 1 + Len(SetupSteps)
           /\ steps[Len(steps)].ok) =>
           \A f \in failed : f[1] # "calibrateAFE"

\* C3: once the probe has succeeded, begin(true) runs all eight set-up
\* steps in order, whatever fails, and returns false whenever a step
\* returned false or a bus write made inside a step failed.
C3_BeginReportsFailures ==
    (Done("begin") /\ arg.initialize /\ steps[1].ok) =>
        /\ [i \in 1..(Len(steps) - 1) |-> steps[i + 1].step] = SetupSteps
        /\ (\/ \E i \in DOMAIN steps : ~steps[i].ok
            \/ \E f \in failed : f[3] = "w")
              => ret = FALSE

\* The part of C3 the code keeps: all eight steps run, and a step that
\* returned false makes begin return false.
BeginRunsAllSteps ==
    (Done("begin") /\ arg.initialize /\ steps[1].ok) =>
        /\ [i \in 1..(Len(steps) - 1) |-> steps[i + 1].step] = SetupSteps
        /\ (\E i \in DOMAIN steps : ~steps[i].ok) => ret = FALSE

\* C12: begin probes the device at most twice, and only after the transport
\* is open and the address selected, the second time only if the first
\* probe failed; it goes on (to the set-up steps, or to return true when
\* initialize is false) exactly when the first or the second probe
\* succeeded; otherwise it returns false with no set-up step executed and no
\* register changed.
C12_Probe ==
    op = "begin" =>
        LET p == steps[1]
        IN  /\ Len(p.acks) <= 2
            /\ Len(p.acks) >= 1 <=> (p.opened /\ p.selected)
            /\ Len(p.acks) = 2 <=> (p.opened /\ p.selected /\ ~p.acks[1])
            /\ p.ok <=> (\E i \in DOMAIN p.acks : p.acks[i])
            /\ ~p.ok => /\ pc = "done" /\ ret = FALSE
                        /\ Len(steps) = 1 /\ regs = pre /\ failed = {}
            /\ (p.ok /\ ~arg.initialize) =>
                   (pc = "done" /\ ret = TRUE /\ Len(steps) = 1)
            /\ (p.ok /\ arg.initialize /\ pc = "done") =>
                   Len(steps) = 1 + Len(SetupSteps)

\* The first probe failed, the second succeeded, and begin(true) went
\* through the set-up and returned true.
C12_Witness ==
    /\ Done("begin")
    /\ arg.initialize
    /\ steps[1].acks = <<FALSE, TRUE>>
    /\ Len(steps) = 1 + Len(SetupSteps)
    /\ ret = TRUE

\* A poll of powerUp's loop, as against a step of the chip.
IsPowerUpPoll == pc = "powerUpPoll" /\ op = "powerUp" /\ regs' = regs

\* C11: powerUp sets both power bits (when the four transactions doing so
\* succeed) and then polls the power-up-ready bit, 1 ms apart and at most
\* 102 times; the first poll that reads the bit set returns true; a poll
\* that reads it clear goes on to the next poll, and the 102nd returns
\* false; and the call always returns.
C11_PowerUp ==
    /\ [][(pc = "idle" /\ op' = "powerUp") =>
            /\ pc' = "powerUpPoll"
            /\ AllOk(bus') =>
                  /\ Bit(regs'[NAU7802_PU_CTRL], NAU7802_PU_CTRL_PUD) = 1
                  /\ Bit(regs'[NAU7802_PU_CTRL], NAU7802_PU_CTRL_PUA) = 1]_<<pc, op>>
    /\ []((pc = "powerUpPoll" /\ op = "powerUp") =>
            (counter <= 101 /\ now = counter))
    /\ [][IsPowerUpPoll =>
            IF Bit(regs[NAU7802_PU_CTRL], NAU7802_PU_CTRL_PUR) = 1 /\ bus'[1]
            THEN pc' = "done" /\ ret' = TRUE /\ now' = now
            ELSE /\ now' = now + 1
                 /\ IF counter < 101
                    THEN pc' = pc /\ counter' = counter + 1
                    ELSE pc' = "done" /\ ret' = FALSE]_<<pc, counter, regs>>
    /\ ((pc = "powerUpPoll" /\ op = "powerUp") ~> (pc = "done"))

\* No poll read the bit set: false after 102 polls and 102 ms.
C11_Witness ==
    /\ Done("powerUp")
    /\ ret = FALSE
    /\ counter = 101
    /\ now = 102

(***************************************************************************)
(* Single-precision arithmetic, as far as getWeight needs it: a float is   *)
(* <<m, e>> with m odd and below 2^24 in size, or <<0, 0>>.  Exponent      *)
(* overflow, denormals and the sign of zero are left out; infinities and   *)
(* NaN appear only as the quotients by zero.                               *)
(***************************************************************************)
Abs(i) == IF i < 0 THEN -i ELSE i
Sign(i) == IF i < 0 THEN -1 ELSE 1

RECURSIVE Norm(_, _)
Norm(m, e) ==
    IF m = 0 THEN <<0, 0>>
    ELSE IF m % 2 = 0 THEN Norm(m \div 2, e + 1)
    ELSE <<m, e>>

\* q without its k low bits, rounded to nearest, ties to even; sticky says
\* that bits below q were already lost.
RoundShift(q, k, sticky) ==
    LET keep == q \div (2^k)
        rem == q % (2^k)
        half == 2^(k - 1)
    IN  IF rem > half \/ (rem = half /\ (sticky \/ keep % 2 = 1))
        THEN keep + 1 ELSE keep

RECURSIVE BitLen(_)
BitLen(a) == IF a = 0 THEN 0 ELSE 1 + BitLen(a \div 2)

\* (float) of an int32_t: 24 significant bits are kept
IntToFloat(i) ==
    IF i = -2147483647 - 1 THEN <<-1, 31>>
    ELSE LET a == Abs(i)
             k == BitLen(a) - 24
         IN  IF k <= 0 THEN Norm(i, 0)
             ELSE Norm(Sign(i) * RoundShift(a, k, FALSE), k)

\* n steps of the long division of r by B: <<quotient bits, remainder>>
RECURSIVE DivBits(_, _, _, _)
DivBits(r, B, q, n) ==
    IF n = 0 THEN <<q, r>>
    ELSE LET bit == IF r >= B THEN 1 ELSE 0
         IN  DivBits(2 * (r - bit * B), B, 2 * q + bit, n - 1)

\* The quotients by zero: +infinity, -infinity and NaN, written with the
\* exponent one past the largest finite one.
FloatInf(sign) == <<sign, 128>>
FloatNaN == <<0, 128>>

\* x / y on floats: the quotient rounded to 24 significant bits
FDiv(x, y) ==
    IF y[1] = 0 THEN (IF x[1] = 0 THEN FloatNaN ELSE FloatInf(Sign(x[1])))
    ELSE IF x[1] = 0 THEN <<0, 0>>
    ELSE LET a == Abs(x[1])
             b == Abs(y[1])
             sa == 24 - BitLen(a)
             sb == 24 - BitLen(b)
             qr == DivBits(a * 2^sa, b * 2^sb, 0, 26)
             k == IF qr[1] >= 33554432 THEN 2 ELSE 1
             m == RoundShift(qr[1], k, qr[2] # 0)
         IN  Norm(Sign(x[1]) * Sign(y[1]) * m,
                  k - 25 + sb - sa + x[2] - y[2])

(***************************************************************************)
(* getAverage and getWeight (NAU7802.cpp, 289-311 and 351-366).            *)
(***************************************************************************)
\* Samples asked for: 1..MaxAvg.
MaxAvg == 2
\* The buffers a block read may leave during an average: 90, -3 and -8.
AvgData == {<<0, 0, 90>>, <<255, 255, 253>>, <<255, 255, 248>>}
AvgBlockRets == {3, 0, -1}
\* The zero offsets and calibration factors (2, -2, 1/2, 3) of the model.
ZeroOffsets == {100, 0, -50}
CalFactors == {<<1, 1>>, <<-1, 1>>, <<1, -1>>, <<3, 0>>}
AvgTimeout == 1000

\* A division that rounds down instead of toward zero.
FloorDiv(a, b) == a \div b

\* total /= averageAmount on a long: the quotient is cut toward zero
TruncDiv(a, b) == IF a >= 0 THEN a \div b ELSE -((-a) \div b)

\* a - b leaves int32_t
Sub32Overflows(a, b) ==
    \/ b < 0 /\ a > 2147483647 + b
    \/ b > 0 /\ a < (-2147483647 - 1) + b

\* onScale - _zeroOffset on int32_t; where the difference leaves the type
\* (undefined behaviour), this is the value a build that wraps produces
Sub32(a, b) ==
    IF b < 0 /\ a > 2147483647 + b
    THEN (((a - 2147483647) - 1) - b) - 2147483647 - 1
    ELSE IF b > 0 /\ a < (-2147483647 - 1) + b
    THEN (((a + 2147483647) + 1) - b) + 2147483647 + 1
    ELSE a - b

\* getWeight without the clamp to the zero offset.
getWeightNoClamp(average, allowNegativeWeights, z, cf) ==
    FDiv(IntToFloat(Sub32(average, z)), cf)

\* getWeight from the return of getAverage on
getWeight(average, allowNegativeWeights, z, cf) ==
    LET clamped == IF allowNegativeWeights = FALSE /\ average < z
                   THEN z ELSE average
    IN  FDiv(IntToFloat(Sub32(clamped, z)), cf)

(***************************************************************************)
(* The acquisition specification: one call of getAverage or getWeight, on  *)
(* a chip that finishes conversions between the polls.                     *)
(***************************************************************************)
InitAcq ==
    /\ \E ready \in {0, 1} :
          regs = [ResetRegs EXCEPT ![NAU7802_PU_CTRL] =
                      14 + ready * 2^NAU7802_PU_CTRL_CR]
    /\ pre = regs
    /\ now = 0 /\ pc = "idle"
    /\ zeroOffset \in ZeroOffsets
    /\ calibrationFactor \in CalFactors
    /\ lastZero = <<zeroOffset>> /\ lastFactor = <<calibrationFactor>>
    /\ calls = 0
    /\ NoOp /\ ret = 0
    /\ NoCal /\ NoBegin /\ NoAvg /\ NoRead /\ NoConn

\* A conversion ends: the chip raises the cycle-ready bit.
ChipConversion ==
    /\ pc = "avg"
    /\ Bit(regs[NAU7802_PU_CTRL], NAU7802_PU_CTRL_CR) = 0
    /\ regs' = [regs EXCEPT ![NAU7802_PU_CTRL] = @ + 2^NAU7802_PU_CTRL_CR]
    /\ inTime' = IF now - startTime <= AvgTimeout THEN inTime + 1 ELSE inTime
    /\ UNCHANGED <<now, pc, op, arg, ret, bus, pre, calVars, beginVars,
                   total, samplesAquired, startTime, averageAmount, taken,
                   onScale, weight, scaleVars, connVars, readVars>>

\* Reading the conversion result clears the cycle-ready bit.
ChipDataRead(r) ==
    [r EXCEPT ![NAU7802_PU_CTRL] = And8(@, NotBit8(NAU7802_PU_CTRL_CR))]

\* The head of getAverage(n), called on its own or from getWeight.
AvgStarts(n) ==
    /\ averageAmount' = n
    /\ total' = 0 /\ samplesAquired' = 0 /\ startTime' = now
    /\ taken' = <<>> /\ onScale' = 0 /\ weight' = <<0, 0>>
    /\ inTime' = Bit(regs[NAU7802_PU_CTRL], NAU7802_PU_CTRL_CR)
    /\ pre' = regs
    /\ pc' = "avg"
    /\ UNCHANGED <<regs, now, ret, bus, calVars, beginVars,
                   scaleVars, connVars, readVars>>

GetAverageCall ==
    /\ pc = "idle"
    /\ \E n \in 1..MaxAvg :
          /\ op' = "getAverage" /\ arg' = [averageAmount |-> n]
          /\ AvgStarts(n)

GetWeightCall ==
    /\ pc = "idle"
    /\ \E allow \in BOOLEAN, n \in 1..MaxAvg :
          /\ op' = "getWeight"
          /\ arg' = [allowNegativeWeights |-> allow, samplesToTake |-> n]
          /\ AvgStarts(n)

\* getAverage returns v: the end of the call, or the rest of getWeight.
AvgReturns(v) ==
    /\ pc' = "done"
    /\ IF op = "getWeight"
       THEN /\ onScale' = v
            /\ weight' = getWeight(v, arg.allowNegativeWeights, zeroOffset,
                                   calibrationFactor)
            /\ ret' = ret
       ELSE /\ UNCHANGED <<onScale, weight>>
            /\ ret' = v

\* The sleeps between two polls: the clock is stepped coarsely, and by the
\* 1 ms of usleep(1E3) once it stands at the deadline.
AvgNaps == IF now - startTime = AvgTimeout THEN {1, CoarseNap} ELSE {CoarseNap}

\* if (millis() - startTime > 1000) return (0);  usleep(1E3);  the sleep
\* taking one of naps.
AvgTimeoutOrNap(naps) ==
    IF now - startTime > AvgTimeout
    THEN AvgReturns(0) /\ now' = now
    ELSE /\ \E nap \in naps : now' = now + nap
         /\ UNCHANGED <<pc, ret, onScale, weight>>

\* What a division by zero may come to where it does not trap.
DivZeroResults == {0, -1}

\* total /= averageAmount; return (total);  with averageAmount 0 the
\* division is undefined: the call traps, or goes on with some value.
AvgDivides(t) ==
    IF averageAmount = 0
    THEN \/ pc' = "aborted" /\ UNCHANGED <<ret, onScale, weight>>
         \/ \E v \in DivZeroResults : AvgReturns(v)
    ELSE AvgReturns(TruncDiv(t, averageAmount))

\* One iteration of the loop of getAverage, and the division after it; the
\* read of the ready bit has one of the outcomes buses, the sleep takes one
\* of naps, the block read returns one of rets and brings one of datas.
AvgPollOf(buses, naps, rets, datas) ==
    /\ pc = "avg"
    /\ \E b \in buses :
          /\ bus' = b
          /\ IF getBit(regs, NAU7802_PU_CTRL_CR, NAU7802_PU_CTRL, b[1])
             THEN \E r \in rets, d \in datas :
                    /\ blockRet' = r /\ data' = d
                    /\ regs' = IF r = 3 THEN ChipDataRead(regs) ELSE regs
                    /\ total' = total + getReading(r, d)
                    /\ samplesAquired' = (samplesAquired + 1) % 256
                    /\ taken' = Append(taken, getReading(r, d))
                    /\ IF (samplesAquired + 1) % 256 = averageAmount
                       THEN /\ AvgDivides(total + getReading(r, d))
                            /\ now' = now
                       ELSE AvgTimeoutOrNap(naps)
             ELSE /\ AvgTimeoutOrNap(naps)
                  /\ UNCHANGED <<regs, total, samplesAquired, taken,
                                 readVars>>
    /\ UNCHANGED <<op, arg, pre, startTime, averageAmount, inTime, calVars,
                   beginVars, scaleVars, connVars>>

AvgPoll == AvgPollOf(Bus(1), AvgNaps, AvgBlockRets, AvgData)

NextAcq ==
    \/ GetAverageCall
    \/ GetWeightCall
    \/ AvgPoll
    \/ ChipConversion

SpecAcq == InitAcq /\ [][NextAcq]_vars

(***************************************************************************)
(* Claims checked under SpecAcq.                                           *)
(***************************************************************************)
RECURSIVE SumSeq(_)
SumSeq(s) == IF s = <<>> THEN 0 ELSE Head(s) + SumSeq(Tail(s))

AvgDone == pc = "done" /\ op = "getAverage"
WeightDone == pc = "done" /\ op = "getWeight"

\* q is a / n with the fraction cut off toward zero (n > 0)
IsTruncQuot(q, a, n) ==
    /\ Abs(q) * n <= Abs(a)
    /\ Abs(a) - Abs(q) * n < n
    /\ (q = 0 \/ Sign(q) = Sign(a))

\* A step of getAverage's loop, as against a step of the chip: the chip
\* changes a register and takes no reading.
IsAvgPoll == pc = "avg" /\ (taken' # taken \/ regs' = regs)

\* C7 as stated: getAverage(n) returns the sum of the first n readings taken
\* on polls that saw the ready bit, divided by n toward zero, and returns 0
\* if fewer than n conversions became ready within 1000 ms of the call.
C7_AsStated ==
    AvgDone =>
        /\ (Len(taken) = averageAmount =>
                IsTruncQuot(ret, SumSeq(taken), averageAmount))
        /\ (inTime < averageAmount => ret = 0)

\* C7, amended: getAverage(n) returns the sum of the first n readings taken
\* on polls that saw the ready bit, divided by n toward zero, once the n-th
\* is taken, however late; it returns 0 only with fewer than n readings
\* taken and more than 1000 ms gone, and every poll that ends more than
\* 1000 ms after the call without the n-th reading returns 0.
C7_Average ==
    /\ [](AvgDone =>
            IF Len(taken) = averageAmount
            THEN IsTruncQuot(ret, SumSeq(taken), averageAmount)
            ELSE /\ ret = 0
                 /\ Len(taken) < averageAmount
                 /\ now - startTime > AvgTimeout)
    /\ [][(/\ IsAvgPoll
           /\ op = "getAverage"
           /\ Len(taken') < averageAmount
           /\ now - startTime > AvgTimeout)
          => (pc' = "done" /\ ret' = 0)]_vars

\* An average of -3 and -8, the second conversion ready after the deadline:
\* -11 / 2 is -5, and only one conversion was ready in time.
C7_Witness ==
    /\ AvgDone
    /\ averageAmount = 2
    /\ taken = <<-3, -8>>
    /\ inTime = 1
    /\ ret = -5

\* w is d / cf rounded to a float: exact where d / cf is a float, and within
\* half a unit of w's last place otherwise
IsQuotient(w, d, cf) ==
    LET E == w[2] + cf[2]
    IN  IF E >= 0
        THEN w[1] * cf[1] * 2^E = d
        ELSE 2 * Abs(w[1] * cf[1] - d * 2^(-E)) <= Abs(cf[1])

\* C8: getWeight(allowNegative, n) returns (a - ZeroOffset) /
\* CalibrationFactor, a being what getAverage(n) returned, replaced by
\* ZeroOffset when allowNegative is false and a < ZeroOffset; with
\* ZeroOffset 100 and CalibrationFactor 2 an average of 90 gives 0 when
\* negatives are disallowed and -5 when they are allowed.
C8_Weight ==
    WeightDone =>
        LET a == IF arg.allowNegativeWeights = FALSE /\ onScale < zeroOffset
                 THEN zeroOffset ELSE onScale
        IN  /\ IsQuotient(weight, a - zeroOffset, calibrationFactor)
            /\ (zeroOffset = 100 /\ calibrationFactor = <<1, 1>>
                    /\ onScale = 90)
               => weight = IF arg.allowNegativeWeights
                        THEN <<-5, 0>> ELSE <<0, 0>>

\* The average 90 under the offset 100, negatives disallowed: weight 0.
C8_Witness ==
    /\ WeightDone
    /\ zeroOffset = 100 /\ calibrationFactor = <<1, 1>>
    /\ onScale = 90
    /\ arg.allowNegativeWeights = FALSE
    /\ weight = <<0, 0>>

(***************************************************************************)
(* Long averaging runs: getAverage called for no sample or for 255, on a   *)
(* bus that works.  The clock is followed to the millisecond of the sleep. *)
(* The chip is either dead, never raising the ready bit, or fast, its next *)
(* conversion over before the next poll.                                   *)
(***************************************************************************)
LongAmounts == {0, 255}

InitLong ==
    /\ \E ready \in {0, 1} :
          regs = [ResetRegs EXCEPT ![NAU7802_PU_CTRL] =
                      14 + ready * 2^NAU7802_PU_CTRL_CR]
    /\ pre = regs
    /\ now = 0 /\ pc = "idle"
    /\ NoOp /\ ret = 0
    /\ NoCal /\ NoBegin /\ NoAvg /\ NoScale /\ NoRead /\ NoConn

GetAverageLongCall ==
    /\ pc = "idle"
    /\ \E n \in LongAmounts :
          /\ op' = "getAverage" /\ arg' = [averageAmount |-> n]
          /\ AvgStarts(n)

\* The chip that was ready at the call goes on converting.
LongChipConversion ==
    /\ inTime > 0
    /\ ChipConversion

LongPoll ==
    /\ inTime > 0 => Bit(regs[NAU7802_PU_CTRL], NAU7802_PU_CTRL_CR) = 1
    /\ AvgPollOf({<<TRUE>>}, {1}, {3}, {<<0, 0, 90>>})

NextLong ==
    \/ GetAverageLongCall
    \/ LongChipConversion
    \/ LongPoll

SpecLong == InitLong /\ [][NextLong]_vars

\* C19: getAverage makes its final division, which it does when the sample
\* just counted brings the 8-bit counter to averageAmount, only with
\* averageAmount other than 0; its other return is the 0 of the timeout.
C19_DivisorNonZero ==
    [][(/\ pc = "avg" /\ pc' # "avg"
        /\ samplesAquired' # samplesAquired
        /\ samplesAquired' = averageAmount)
       => averageAmount # 0]_pc

(***************************************************************************)
(* The bounded waits: one call of waitForCalibrateAFE, calibrateAFE or      *)
(* getAverage, on a chip that may or may not finish its calibration or its *)
(* conversion.  The driver is single-threaded and blocking, so a loop that *)
(* can make its next iteration makes it; nothing is assumed of the chip.   *)
(* getAverage is entered through getWeight, its caller at line 353.        *)
(***************************************************************************)
InitWaits ==
    /\ \E c2 \in {0, 4, 8, 12}, ready \in {0, 1} :
          regs = [ResetRegs EXCEPT ![NAU7802_CTRL2] = c2,
                                   ![NAU7802_PU_CTRL] =
                                       14 + ready * 2^NAU7802_PU_CTRL_CR]
    /\ pre = regs
    /\ now = 0 /\ pc = "idle"
    /\ NoOp /\ ret = FALSE
    /\ NoCal /\ NoBegin /\ NoAvg /\ NoScale /\ NoRead /\ NoConn

NextWaits ==
    \/ WaitForCalibrateAFECall
    \/ CalibrateAFECall
    \/ WaitPoll
    \/ ChipCalDone
    \/ GetWeightCall
    \/ AvgPoll
    \/ ChipConversion

SpecWaits ==
    /\ InitWaits /\ [][NextWaits]_vars
    /\ WF_loopVars(WaitPoll) /\ WF_loopVars(AvgPoll)

\* C16: a waitForCalibrateAFE with timeout_ms > 0 (calibrateAFE included) and
\* a getAverage always return, whatever the chip does; and a
\* waitForCalibrateAFE(0) that has returned has polled a status other than
\* InProgress.
C16_NoHang ==
    /\ (pc = "wait" /\ timeout_ms > 0) ~> (pc = "done")
    /\ (pc = "avg") ~> (pc = "done")
    /\ []((Done("waitForCalibrateAFE") /\ timeout_ms = 0) =>
             cal_ready # NAU7802_CAL_IN_PROGRESS)

\* getAverage gave up on a chip that never raised the ready bit.
C16_Witness ==
    /\ Done("getWeight")
    /\ inTime = 0 /\ taken = <<>>
    /\ now - startTime > AvgTimeout
    /\ onScale = 0

(***************************************************************************)
(* The chip as a concurrent process.  A read-modify-write of CTRL2 is two  *)
(* bus transactions: the read at the head of the call, which sees the      *)
(* registers as they are then (pre), and the write, which stores the byte  *)
(* computed from what was read.  The chip may end a calibration at any     *)
(* time, between the two as well.                                          *)
(***************************************************************************)
InitRace ==
    /\ \E c2 \in {0, 4, 8} :
          regs = [ResetRegs EXCEPT ![NAU7802_CTRL2] = c2,
                                   ![NAU7802_PU_CTRL] = 14]
    /\ pre = regs
    /\ now = 0 /\ pc = "idle"
    /\ NoOp /\ ret = FALSE
    /\ NoCal /\ NoBegin /\ NoAvg /\ NoScale /\ NoRead /\ NoConn

\* uint8_t value = getRegister(NAU7802_CTRL2), at the head of o(a).
RmwRead(o, a) ==
    /\ pc = "idle"
    /\ op' = o /\ arg' = a
    /\ pre' = regs
    /\ \E ok \in BOOLEAN : bus' = <<ok>>
    /\ pc' = "rmw"
    /\ UNCHANGED <<regs, now, ret, calVars, beginVars, avgVars, scaleVars,
                   connVars, readVars>>

RaceSetSampleRateCall ==
    \E v \in ArgVals : RmwRead("setSampleRate", [rate |-> v])

RaceSetChannelCall ==
    \E v \in {NAU7802_CHANNEL_1, 1} :
        RmwRead("setChannel", [channelNumber |-> v])

RaceBeginCalibrateAFECall == RmwRead("beginCalibrateAFE", <<>>)

\* What the call in progress makes of the registers it read, its write
\* having the outcome ok.
RmwResult(ok) ==
    LET b == <<bus[1], ok>>
    IN  CASE op = "setSampleRate" -> setSampleRate(pre, arg.rate, b)
          [] op = "setChannel" -> setChannel(pre, arg.channelNumber, b)
          [] op = "beginCalibrateAFE" -> beginCalibrateAFE(pre, b)

\* return (setRegister(NAU7802_CTRL2, value)): the byte goes to the chip as
\* it is now.
RmwWrite ==
    /\ pc = "rmw"
    /\ \E ok \in BOOLEAN :
          /\ bus' = <<bus[1], ok>>
          /\ regs' = IF ok
                     THEN [regs EXCEPT ![NAU7802_CTRL2] =
                              RmwResult(ok).regs[NAU7802_CTRL2]]
                     ELSE regs
          /\ ret' = IF op = "beginCalibrateAFE" THEN ret
                    ELSE RmwResult(ok).ret
    /\ pc' = "done"
    /\ UNCHANGED <<now, op, arg, pre, calVars, beginVars, avgVars, scaleVars,
                   connVars, readVars>>

\* A calibration ends, whatever the driver is doing: the chip clears CALS
\* and reports in CAL_ERROR.
RaceChipCalDone ==
    /\ Bit(regs[NAU7802_CTRL2], NAU7802_CTRL2_CALS) = 1
    /\ \E err \in {0, 1} :
          regs' = [regs EXCEPT ![NAU7802_CTRL2] =
                      And8(@, 243) + err * 2^NAU7802_CTRL2_CAL_ERROR]
    /\ UNCHANGED <<now, pc, op, arg, ret, bus, pre, calVars, beginVars,
                   avgVars, scaleVars, connVars, readVars>>

\* The call has returned; the caller makes its next call.
RaceGoesOn ==
    /\ pc = "done"
    /\ pc' = "idle"
    /\ UNCHANGED <<regs, now, op, arg, ret, bus, pre, calVars, beginVars,
                   avgVars, scaleVars, connVars, readVars>>

NextRace ==
    \/ RaceSetSampleRateCall
    \/ RaceSetChannelCall
    \/ RaceBeginCalibrateAFECall
    \/ RmwWrite
    \/ RaceChipCalDone
    \/ RaceGoesOn

SpecRace == InitRace /\ [][NextRace]_vars

\* C18: on the device the calibration-start bit goes from 0 to 1 only in the
\* write of beginCalibrateAFE, never in that of setSampleRate or setChannel,
\* the chip ending a calibration whenever it will.
C18_OnlyBeginStarts ==
    [][(CalsBit(regs) = 0 /\ CalsBit(regs') = 1) =>
          op = "beginCalibrateAFE"]_regs

(***************************************************************************)
(* The scale's stored values over a sequence of calls (NAU7802.cpp,        *)
(* 314-366).  The averaging loop is followed poll by poll under SpecAcq;   *)
(* here a call of getAverage is taken whole, for what it returns, and the  *)
(* clock is not followed.                                                  *)
(***************************************************************************)
\* What getAverage may return: 0, a reading, the ends of the 24-bit range.
AvgResults == {-8388608, 0, 90, 8388607}
\* Arguments of setZeroOffset: the ends of int32_t and values in between.
ZeroVals == {-2147483647 - 1, -1, 100, 2147483647}
\* Arguments of setCalibrationFactor (2, 1/3 rounded) and known weights.
FactorVals == {<<1, 1>>, <<11184811, -25>>}
KnownWeights == {<<5, 0>>}
\* What the members may hold before they are first set.
ScaleGarbage == {0, -1}
\* The longest sequence has MaxCalls + 1 calls.
MaxCalls == 2

\* A setter that keeps the low 24 bits of its argument, sign-extended.
setZeroOffsetAs24(newZeroOffset) ==
    (((newZeroOffset % 16777216) + 8388608) % 16777216) - 8388608

\* _zeroOffset = newZeroOffset, both int32_t
setZeroOffset(newZeroOffset) == newZeroOffset

\* _calibrationFactor = newCalFactor, both float
setCalibrationFactor(newCalFactor) == newCalFactor

\* (onScale - _zeroOffset) / (float)weightOnScale
calculateCalibrationFactor(average, z, weightOnScale) ==
    FDiv(IntToFloat(Sub32(average, z)), weightOnScale)

\* The subtraction of getWeight leaves int32_t.
getWeightOverflows(average, allowNegativeWeights, z) ==
    Sub32Overflows(IF allowNegativeWeights = FALSE /\ average < z
                   THEN z ELSE average, z)

InitScale ==
    /\ \E ready \in {0, 1} :
          regs = [ResetRegs EXCEPT ![NAU7802_PU_CTRL] =
                      14 + ready * 2^NAU7802_PU_CTRL_CR]
    /\ pre = regs
    /\ now = 0 /\ pc = "idle"
    /\ zeroOffset \in ScaleGarbage /\ calibrationFactor = <<1, 0>>
    /\ lastZero = <<>> /\ lastFactor = <<>>
    /\ calls = 0
    /\ NoOp /\ ret = 0
    /\ NoCal /\ NoBegin /\ NoAvg /\ NoRead /\ NoConn

\* The call o(a) returns; what it does to the scale's values and to the
\* registers is said by the caller of this.
ScaleCall(o, a) ==
    /\ pc = "idle"
    /\ op' = o /\ arg' = a
    /\ pre' = regs
    /\ UNCHANGED <<now, bus, calVars, beginVars, total, samplesAquired,
                   startTime, averageAmount, taken, inTime, connVars,
                   readVars>>

SetZeroOffsetCall ==
    \E X \in ZeroVals :
        /\ ScaleCall("setZeroOffset", [newZeroOffset |-> X])
        /\ zeroOffset' = setZeroOffset(X)
        /\ lastZero' = <<X>>
        /\ pc' = "done"
        /\ UNCHANGED <<regs, ret, calibrationFactor, lastFactor, calls,
                       onScale, weight>>

GetZeroOffsetCall ==
    /\ ScaleCall("getZeroOffset", <<>>)
    /\ ret' = zeroOffset
    /\ pc' = "done"
    /\ UNCHANGED <<regs, scaleVars, onScale, weight>>

SetCalibrationFactorCall ==
    \E f \in FactorVals :
        /\ ScaleCall("setCalibrationFactor", [newCalFactor |-> f])
        /\ calibrationFactor' = setCalibrationFactor(f)
        /\ lastFactor' = <<f>>
        /\ pc' = "done"
        /\ UNCHANGED <<regs, ret, zeroOffset, lastZero, calls, onScale,
                       weight>>

GetCalibrationFactorCall ==
    /\ ScaleCall("getCalibrationFactor", <<>>)
    /\ ret' = calibrationFactor
    /\ pc' = "done"
    /\ UNCHANGED <<regs, scaleVars, onScale, weight>>

\* getAverage, taken whole: it returns one of AvgResults, and the chip's
\* ready bit is cleared if a reading was taken last.
AvgWhole(a) ==
    /\ a \in AvgResults
    /\ regs' \in {regs, ChipDataRead(regs)}

ScaleGetAverageCall ==
    \E n \in 1..MaxAvg, a \in AvgResults :
        /\ ScaleCall("getAverage", [averageAmount |-> n])
        /\ AvgWhole(a)
        /\ ret' = a
        /\ pc' = "done"
        /\ UNCHANGED <<scaleVars, onScale, weight>>

\* setZeroOffset(getAverage(averageAmount))
CalculateZeroOffsetCall ==
    \E n \in 1..MaxAvg, a \in AvgResults :
        /\ ScaleCall("calculateZeroOffset", [averageAmount |-> n])
        /\ AvgWhole(a)
        /\ zeroOffset' = setZeroOffset(a)
        /\ lastZero' = <<>>
        /\ pc' = "done"
        /\ UNCHANGED <<ret, calibrationFactor, lastFactor, calls, onScale,
                       weight>>

\* Where the subtraction overflows, the build either wraps or traps.
Sub32Ends(overflows) == IF overflows THEN {"done", "aborted"} ELSE {"done"}

CalculateCalibrationFactorCall ==
    \E n \in 1..MaxAvg, a \in AvgResults, w \in KnownWeights :
        /\ ScaleCall("calculateCalibrationFactor",
                     [weightOnScale |-> w, averageAmount |-> n])
        /\ AvgWhole(a)
        /\ onScale' = a
        /\ \E end \in Sub32Ends(Sub32Overflows(a, zeroOffset)) :
              /\ pc' = end
              /\ IF end = "done"
                 THEN /\ calibrationFactor' =
                           setCalibrationFactor(
                               calculateCalibrationFactor(a, zeroOffset, w))
                      /\ lastFactor' = <<>>
                 ELSE UNCHANGED <<calibrationFactor, lastFactor>>
        /\ UNCHANGED <<ret, zeroOffset, lastZero, calls, weight>>

ScaleGetWeightCall ==
    \E allow \in BOOLEAN, n \in 1..MaxAvg, a \in AvgResults :
        /\ ScaleCall("getWeight",
                     [allowNegativeWeights |-> allow, samplesToTake |-> n])
        /\ AvgWhole(a)
        /\ onScale' = a
        /\ \E end \in Sub32Ends(getWeightOverflows(a, allow, zeroOffset)) :
              /\ pc' = end
              /\ weight' = IF end = "done"
                           THEN getWeight(a, allow, zeroOffset,
                                          calibrationFactor)
                           ELSE weight
        /\ UNCHANGED <<ret, scaleVars>>

\* A register operation between two calls on the scale's values.
ScaleSetChannelCall ==
    /\ pc = "idle"
    /\ SetChannelCall

\* The call has returned; the caller goes on to its next call, up to
\* MaxCalls times.  What the call was is no longer followed.
ScaleGoesOn ==
    /\ pc = "done"
    /\ calls < MaxCalls
    /\ pc' = "idle"
    /\ calls' = calls + 1
    /\ op' = "none" /\ arg' = <<>> /\ bus' = <<>>
    /\ pre' = regs
    /\ UNCHANGED <<regs, now, ret, calVars, beginVars,
                   avgVars, zeroOffset, calibrationFactor, lastZero,
                   lastFactor, connVars, readVars>>

NextScale ==
    \/ SetZeroOffsetCall
    \/ GetZeroOffsetCall
    \/ SetCalibrationFactorCall
    \/ GetCalibrationFactorCall
    \/ ScaleGetAverageCall
    \/ CalculateZeroOffsetCall
    \/ CalculateCalibrationFactorCall
    \/ ScaleGetWeightCall
    \/ ScaleSetChannelCall
    \/ ScaleGoesOn

SpecScale == InitScale /\ [][NextScale]_vars

\* C14: getZeroOffset returns the X of the latest setZeroOffset(X), for X
\* up to the ends of int32_t, whatever reads, weight computations and
\* register operations came in between, as long as no calculateZeroOffset
\* did; the same holds of the calibration factor; and the stored values
\* change only in a call of their setter or of their calculate function.
C14_RoundTrip ==
    /\ []((Done("getZeroOffset") /\ lastZero # <<>>) => ret = lastZero[1])
    /\ []((Done("getCalibrationFactor") /\ lastFactor # <<>>) =>
             ret = lastFactor[1])
    /\ [][op' \in {"setZeroOffset", "calculateZeroOffset"}]_zeroOffset
    /\ [][op' \in {"setCalibrationFactor", "calculateCalibrationFactor"}
         ]_calibrationFactor

\* The offset 2^31 - 1 read back after a weight was computed with it.
C14_Witness ==
    /\ Done("getZeroOffset")
    /\ lastZero = <<2147483647>>
    /\ ret = 2147483647
    /\ onScale = 90 /\ weight # <<0, 0>>
    /\ lastFactor = <<>>

\* C20: in getWeight (after the clamp) and in calculateCalibrationFactor the
\* difference of the average and the zero offset stays inside int32_t, for
\* every zero offset setZeroOffset accepts and every 24-bit average.
C20_NoOverflow ==
    /\ (op = "getWeight" /\ pc \in {"done", "aborted"}) =>
           ~getWeightOverflows(onScale, arg.allowNegativeWeights, zeroOffset)
    /\ (op = "calculateCalibrationFactor" /\ pc \in {"done", "aborted"}) =>
           ~Sub32Overflows(onScale, zeroOffset)

====
